---------------------------- MODULE Spec2Model ----------------------------
(***************************************************************************)
(* A model of scripts/build-dbt.py: the release script that bumps dbt's    *)
(* version, builds and uploads the PyPI packages, and creates, tests and   *)
(* commits the versioned homebrew formula.                                 *)
(*                                                                         *)
(* Python strings are modelled as sequences of one-character strings, so   *)
(* that matching, splitting, stripping, int() and formatting are computed. *)
(***************************************************************************)
EXTENDS Integers, Sequences, FiniteSets, TLC

VARIABLES
    \* ---- Version(raw) and its projections (SpecVersion) ----
    raw,            \* the string handed to Version()
    version,        \* the constructed Version, an exception, or None
    projected,      \* homebrew_filename() / homebrew_class_name() results
    \* ---- a second Version, of another release (SpecPair) ----
    other_raw,      \* the string handed to the second Version()
    other_version,  \* the second Version, or None
    other_projected,\* the second Version's filename and class name
    \* ---- _extract_parts and its caller's unpacking (SpecExtract) ----
    poet_lines,     \* the lines the helper tool printed
    poet_data,      \* the decoded output of `poet -s dbt`
    parts,          \* what url_data, hash_data = _extract_parts(output) gives
    \* ---- main(), upgrade_to(), build_homebrew_package() (Spec) ----
    pc,             \* the statement the run is at
    run,            \* number of the current invocation
    entry,          \* the function the current invocation entered
    env,            \* the interpreter: sys.version_info[:2], wheel importable
    argv,           \* command line of the current invocation of main()
    args,           \* the Arguments (version, homebrew_set_default) in use
    err,            \* the exception that ended the run, or "none"
    calls,          \* operations the current run invoked, in order
    sub_idx,        \* position of build_pypi_packages' loop in _SUBPACKAGES
    tree_version,   \* the version string in the source tree
    dist,           \* artifacts in each target's dist directory
    sub_pkgs,       \* build_pypi_packages' collected subpackage artifacts
    test_index,     \* artifacts on the staging index (pypitest)
    prod_index,     \* artifacts on the production index
    venv,           \* build/tmp-venv
    template,       \* the DbtHomebrewTemplate of the current run
    formulas,       \* files in <homebrew_path>/Formula
    staged,         \* formula files added to the homebrew repo's index
    committed,      \* formula files committed to the homebrew repo
    returned        \* build_homebrew_package's return value

otherVars == <<other_raw, other_version, other_projected>>
versionVars == <<raw, version, projected, otherVars>>
extractVars == <<poet_lines, poet_data, parts>>
runVars == <<run, entry, env, argv, args>>
buildVars == <<sub_idx, tree_version, dist, sub_pkgs>>
indexVars == <<test_index, prod_index>>
brewVars == <<venv, template, formulas, staged, committed, returned>>
pipelineVars == <<pc, err, calls, runVars, buildVars, indexVars, brewVars>>
vars == <<versionVars, extractVars, pipelineVars>>

\* Optional[T]: None, or Some(x)
None == << >>
Some(x) == <<x>>
Get(o) == o[1]

-----------------------------------------------------------------------------
(* Characters and strings *)

Digits == {"0", "1", "2", "3", "4", "5", "6", "7", "8", "9"}
DigitSeq == <<"0", "1", "2", "3", "4", "5", "6", "7", "8", "9">>
LowerSeq == <<"a", "b", "c", "d", "e", "f", "g", "h", "i", "j", "k", "l", "m",
              "n", "o", "p", "q", "r", "s", "t", "u", "v", "w", "x", "y", "z">>
UpperSeq == <<"A", "B", "C", "D", "E", "F", "G", "H", "I", "J", "K", "L", "M",
              "N", "O", "P", "Q", "R", "S", "T", "U", "V", "W", "X", "Y", "Z">>
Lower == {LowerSeq[i] : i \in DOMAIN LowerSeq}
Whitespace == {" "}
Newline == "\n"

IndexIn(seq, c) == CHOOSE i \in DOMAIN seq : seq[i] = c

\* int(<digits>): the value of a decimal numeral
RECURSIVE ToInt(_)
ToInt(ds) ==
    IF ds = << >> THEN 0
    ELSE 10 * ToInt(SubSeq(ds, 1, Len(ds) - 1)) + (IndexIn(DigitSeq, ds[Len(ds)]) - 1)

\* str(<int>) as an f-string renders it: decimal, no leading zeros
RECURSIVE ToStr(_)
ToStr(n) ==
    IF n < 10 THEN <<DigitSeq[n + 1]>>
    ELSE ToStr(n \div 10) \o <<DigitSeq[(n % 10) + 1]>>

\* the index of the last character of the longest run of characters of class
\* `cls` that starts at s[i]; i - 1 when s[i] is not in the class
RECURSIVE RunEnd(_, _, _)
RunEnd(s, i, cls) ==
    IF i <= Len(s) /\ s[i] \in cls THEN RunEnd(s, i + 1, cls) ELSE i - 1

-----------------------------------------------------------------------------
(* VERSION_PATTERN and class Version *)

\* VERSION_PATTERN.match(raw): a match at the start of raw (re.match does not
\* anchor the end).  Digits, "." and lower-case letters are disjoint classes,
\* so every greedy group takes its longest run; the optional group is absent
\* when the letters are not followed by a digit.  Result: Some(groupdict()),
\* or None.
VersionPatternMatch(s) ==
    LET e1 == RunEnd(s, 1, Digits)
        e2 == RunEnd(s, e1 + 2, Digits)
        e3 == RunEnd(s, e2 + 2, Digits)
        t  == RunEnd(s, e3 + 1, Lower)
        n  == RunEnd(s, t + 1, Digits)
    IN  IF /\ e1 >= 1
           /\ e1 + 1 <= Len(s) /\ s[e1 + 1] = "."
           /\ e2 >= e1 + 2
           /\ e2 + 1 <= Len(s) /\ s[e2 + 1] = "."
           /\ e3 >= e2 + 2
        THEN Some([major |-> SubSeq(s, 1, e1),
                   minor |-> SubSeq(s, e1 + 2, e2),
                   patch |-> SubSeq(s, e2 + 2, e3),
                   prerelease |-> IF t >= e3 + 1 /\ n >= t + 1
                                  THEN Some(SubSeq(s, e3 + 1, t)) ELSE None,
                   num |-> IF t >= e3 + 1 /\ n >= t + 1
                           THEN Some(SubSeq(s, t + 1, n)) ELSE None])
        ELSE None

\* Version.__init__: None.groupdict() raises AttributeError
VersionInit(s) ==
    LET m == VersionPatternMatch(s)
        groups == Get(m)
    IN  IF m = None
        THEN [exception |-> "AttributeError"]
        ELSE [raw |-> s,
              major |-> ToInt(groups.major),
              minor |-> ToInt(groups.minor),
              patch |-> ToInt(groups.patch),
              prerelease |-> IF groups.num /= None
                             THEN groups.prerelease ELSE None,
              num |-> IF groups.num /= None
                      THEN Some(ToInt(Get(groups.num))) ELSE None]

IsException(v) == "exception" \in DOMAIN v

\* str.title() of a run of lower-case letters
Title(s) ==
    [i \in DOMAIN s |-> IF i = 1 THEN UpperSeq[IndexIn(LowerSeq, s[i])] ELSE s[i]]

\* a variant of homebrew_class_name that leaves the prerelease in lower case
homebrew_class_name_untitled(v) ==
    LET name == <<"D", "b", "t", "A", "T">>
                    \o ToStr(v.major) \o ToStr(v.minor) \o ToStr(v.patch)
    IN  IF v.prerelease /= None /\ v.num /= None
        THEN name \o Get(v.prerelease) \o ToStr(Get(v.num))
        ELSE name

\* Version.homebrew_class_name
homebrew_class_name(v) ==
    LET name == <<"D", "b", "t", "A", "T">>
                    \o ToStr(v.major) \o ToStr(v.minor) \o ToStr(v.patch)
    IN  IF v.prerelease /= None /\ v.num /= None
        THEN name \o Title(Get(v.prerelease)) \o ToStr(Get(v.num))
        ELSE name

\* a variant of homebrew_filename that leaves out the dots of the version
homebrew_filename_undotted(v) ==
    LET version_str == ToStr(v.major) \o ToStr(v.minor) \o ToStr(v.patch)
    IN  <<"d", "b", "t", "@">>
            \o (IF v.prerelease /= None /\ v.num /= None
                THEN version_str \o <<"-">> \o Get(v.prerelease) \o ToStr(Get(v.num))
                ELSE version_str)
            \o <<".", "r", "b">>

\* a variant of homebrew_filename that joins the prerelease without the hyphen
homebrew_filename_unhyphenated(v) ==
    LET version_str == ToStr(v.major) \o <<".">> \o ToStr(v.minor)
                           \o <<".">> \o ToStr(v.patch)
    IN  <<"d", "b", "t", "@">>
            \o (IF v.prerelease /= None /\ v.num /= None
                THEN version_str \o Get(v.prerelease) \o ToStr(Get(v.num))
                ELSE version_str)
            \o <<".", "r", "b">>

\* Version.homebrew_filename
homebrew_filename(v) ==
    LET version_str == ToStr(v.major) \o <<".">> \o ToStr(v.minor)
                           \o <<".">> \o ToStr(v.patch)
    IN  <<"d", "b", "t", "@">>
            \o (IF v.prerelease /= None /\ v.num /= None
                THEN version_str \o <<"-">> \o Get(v.prerelease) \o ToStr(Get(v.num))
                ELSE version_str)
            \o <<".", "r", "b">>

-----------------------------------------------------------------------------
(* _extract_parts *)

\* str.split('\n')
RECURSIVE Split(_)
Split(s) ==
    LET nl == {i \in DOMAIN s : s[i] = Newline}
    IN  IF nl = {} THEN <<s>>
        ELSE LET i == CHOOSE k \in nl : \A j \in nl : k <= j
             IN  <<SubSeq(s, 1, i - 1)>> \o Split(SubSeq(s, i + 1, Len(s)))

\* a variant of Strip that removes leading blanks only (str.lstrip)
RECURSIVE StripLeading(_)
StripLeading(s) ==
    IF s = << >> THEN s
    ELSE IF s[1] \in Whitespace THEN StripLeading(Tail(s))
    ELSE s

\* str.strip()
RECURSIVE Strip(_)
Strip(s) ==
    IF s = << >> THEN s
    ELSE IF s[1] \in Whitespace THEN Strip(Tail(s))
    ELSE IF s[Len(s)] \in Whitespace THEN Strip(SubSeq(s, 1, Len(s) - 1))
    ELSE s

\* 'resource "dbt" do' and 'end', each written as one character
ResourceDbtDo == <<"R">>
End == <<"E">>

\* the generator's loop from line `i` on: the lines it yields
RECURSIVE ExtractLoop(_, _, _)
ExtractLoop(lines, i, collecting) ==
    IF i > Len(lines) THEN << >>
    ELSE LET line == Strip(lines[i])
         IN  IF ~collecting
             THEN ExtractLoop(lines, i + 1, line = ResourceDbtDo)
             ELSE IF line = End THEN << >>
                  ELSE <<line>> \o ExtractLoop(lines, i + 1, TRUE)

\* _extract_parts(poet_data), as the sequence of the strings it yields
extract_parts(data) == ExtractLoop(Split(data), 1, FALSE)

\* url_data, hash_data = _extract_parts(output): unpacking raises ValueError
\* unless exactly two strings are yielded
UnpackParts(data) ==
    LET yielded == extract_parts(data)
    IN  IF Len(yielded) = 2
        THEN [url_data |-> yielded[1], hash_data |-> yielded[2]]
        ELSE [exception |-> "ValueError"]

-----------------------------------------------------------------------------
(* Bounds and input sets *)

MaxRawLen == 8
MaxLines == 5
MaxRuns == 2

RawAlphabet == {"0", "1", ".", "b"}
RawStrings == UNION {[1..n -> RawAlphabet] : n \in 0..MaxRawLen}

\* lines a helper tool may print: "u" stands for the url line's text and "h"
\* for the sha256 line's
SampleLines == {<< >>, <<"R">>, <<" ", "R", " ">>, <<"E">>, <<"E", " ">>,
                <<"u">>, <<" ", "h">>}
PoetLines == UNION {[1..n -> SampleLines] : n \in 0..MaxLines}

\* '\n'.join(lines): the text whose lines are `lines`
RECURSIVE Join(_)
Join(lines) ==
    IF Len(lines) = 0 THEN << >>
    ELSE IF Len(lines) = 1 THEN lines[1]
    ELSE lines[1] \o <<Newline>> \o Join(Tail(lines))

-----------------------------------------------------------------------------
(* The states in which no release run is under way *)

PipelineIdle ==
    /\ pc = "idle" /\ run = 0 /\ entry = "none" /\ env = None /\ argv = None
    /\ args = None /\ err = "none" /\ calls = << >> /\ sub_idx = 0
    /\ tree_version = << >> /\ dist = << >> /\ sub_pkgs = {}
    /\ test_index = {} /\ prod_index = {} /\ venv = "absent" /\ template = None
    /\ formulas = << >> /\ staged = {} /\ committed = {} /\ returned = None

OtherIdle == other_raw = << >> /\ other_version = None /\ other_projected = None

VersionIdle == raw = << >> /\ version = None /\ projected = None /\ OtherIdle

ExtractIdle == poet_lines = << >> /\ poet_data = << >> /\ parts = None

-----------------------------------------------------------------------------
(* SpecVersion: Version(raw), then its projections *)

InitVersion ==
    /\ raw \in RawStrings
    /\ version = None
    /\ projected = [filename |-> None, class_name |-> None]
    /\ OtherIdle /\ ExtractIdle /\ PipelineIdle

Construct ==
    /\ version = None
    /\ version' = Some(VersionInit(raw))
    /\ UNCHANGED <<raw, projected, otherVars, extractVars, pipelineVars>>

HomebrewFilename ==
    /\ version /= None /\ ~IsException(Get(version))
    /\ projected.filename = None
    /\ projected' = [projected EXCEPT !.filename = Some(homebrew_filename(Get(version)))]
    /\ UNCHANGED <<raw, version, otherVars, extractVars, pipelineVars>>

HomebrewClassName ==
    /\ version /= None /\ ~IsException(Get(version))
    /\ projected.class_name = None
    /\ projected' = [projected EXCEPT !.class_name = Some(homebrew_class_name(Get(version)))]
    /\ UNCHANGED <<raw, version, otherVars, extractVars, pipelineVars>>

NextVersion == Construct \/ HomebrewFilename \/ HomebrewClassName

SpecVersion == InitVersion /\ [][NextVersion]_vars

-----------------------------------------------------------------------------
(* SpecPair: the Versions of two releases and their projections *)

\* the strings of RawStrings that VERSION_PATTERN matches from the first
\* character to the last (text after the match changes no attribute of the
\* Version but raw)
ReleaseStrings ==
    {r \in RawStrings :
        LET m == VersionPatternMatch(r)
            groups == Get(m)
        IN  /\ m /= None
            /\ Len(r) = Len(groups.major) + 1 + Len(groups.minor) + 1
                           + Len(groups.patch)
                           + (IF groups.num /= None
                              THEN Len(Get(groups.prerelease)) + Len(Get(groups.num))
                              ELSE 0)}

\* the releases the first one is compared with
OtherReleases ==
    {<<"0", ".", "1", ".", "1">>,
     <<"0", ".", "1", ".", "1", "1">>,
     <<"0", ".", "1", "1", ".", "1">>,
     <<"1", ".", "0", ".", "1", "0">>,
     <<"0", "1", ".", "1", ".", "1">>,
     <<"0", ".", "1", ".", "1", "b", "1">>,
     <<"0", ".", "1", ".", "1", "b", "1", "1">>,
     <<"0", ".", "1", ".", "1", "b", "b", "1">>}

InitPair ==
    /\ raw \in ReleaseStrings
    /\ other_raw \in OtherReleases
    /\ version = None /\ other_version = None
    /\ projected = [filename |-> None, class_name |-> None]
    /\ other_projected = [filename |-> None, class_name |-> None]
    /\ ExtractIdle /\ PipelineIdle

ConstructBoth ==
    /\ version = None
    /\ version' = Some(VersionInit(raw))
    /\ other_version' = Some(VersionInit(other_raw))
    /\ UNCHANGED <<raw, projected, other_raw, other_projected, extractVars,
                   pipelineVars>>

ProjectBoth ==
    /\ version /= None /\ projected.filename = None
    /\ projected' = [filename |-> Some(homebrew_filename(Get(version))),
                     class_name |-> Some(homebrew_class_name(Get(version)))]
    /\ other_projected'
          = [filename |-> Some(homebrew_filename(Get(other_version))),
             class_name |-> Some(homebrew_class_name(Get(other_version)))]
    /\ UNCHANGED <<raw, version, other_raw, other_version, extractVars,
                   pipelineVars>>

NextPair == ConstructBoth \/ ProjectBoth

SpecPair == InitPair /\ [][NextPair]_vars

-----------------------------------------------------------------------------
(* SpecExtract: url_data, hash_data = _extract_parts(output) *)

InitExtract ==
    /\ poet_lines \in PoetLines
    /\ poet_data = Join(poet_lines)
    /\ parts = None
    /\ VersionIdle /\ PipelineIdle

ExtractParts ==
    /\ parts = None
    /\ parts' = Some(UnpackParts(poet_data))
    /\ UNCHANGED <<poet_lines, poet_data, versionVars, pipelineVars>>

NextExtract == ExtractParts

SpecExtract == InitExtract /\ [][NextExtract]_vars

-----------------------------------------------------------------------------
(* The release run: main(), upgrade_to() and the functions they call *)

HOMEBREW_PYTHON == <<3, 7>>

SUBPACKAGES == <<"core", "plugins/postgres", "plugins/redshift",
                 "plugins/bigquery", "plugins/snowflake">>

\* dbt_path itself, as a build target
MainPackage == "."
Targets == {SUBPACKAGES[i] : i \in DOMAIN SUBPACKAGES} \cup {MainPackage}

\* version strings of the runs
V0151 == <<"0", ".", "1", "5", ".", "1">>
V0152 == <<"0", ".", "1", "5", ".", "2">>
V0152b == <<"0", ".", "1", "5", ".", "2", "b">>
V0160b1 == <<"0", ".", "1", "6", ".", "0", "b", "1">>
V015 == <<"0", ".", "1", "5">>

\* a Python value with its type: a Version object or a str
PyVersion(v) == [type |-> "Version", value |-> v]
PyStr(s) == [type |-> "str", value |-> s]

\* str(x), as an f-string or str.format renders x (Version.__str__)
StrOf(x) == IF x.type = "Version" THEN x.value.raw ELSE x.value

\* what the callers hand over
PythonVersions == {<<3, 7>>, <<3, 8>>}
ArgvVersions == {V0152, V0152b, V0160b1, V015}
StrVersions == {V0152, V0160b1}
VersionObjects == {VersionInit(r) : r \in {V0152, V0152b, V0160b1}}

\* outputs of `poet -s dbt`: a block with its two lines, no block at all,
\* a block that is never closed
PoetOutputs ==
    {Join(<< <<"u">>, <<"R">>, <<" ", "u">>, <<" ", "h">>, <<"E">>, << >> >>),
     Join(<< <<"u">>, << >> >>),
     Join(<< <<"R">>, <<" ", "u">>, <<" ", "h">> >>)}
\* the output of `poet -r dbt`: the resource stanzas of the dependencies
PoetResources == {"resources-1"}

FormulaPaths == {homebrew_filename(v) : v \in VersionObjects}

\* Formula/dbt.rb, the default formula, and what the homebrew repository
\* holds in it before the first run
DefaultPath == <<"d", "b", "t", ".", "r", "b">>
DefaultFormula ==
    [formula_name |-> <<"D", "b", "t">>, url_data |-> <<"u">>,
     hash_data |-> <<"h">>, version |-> V0151, dependencies |-> "resources-1"]

\* the sdist and the wheel that setup.py writes into a target's dist
Built(target, ver) ==
    {[pkg |-> target, version |-> ver, ext |-> e] : e \in {"tar.gz", "whl"}}

\* _all_packages_in(path): the files matching *.tar.gz and *.whl
all_packages_in(files) == {f \in files : f.ext \in {"tar.gz", "whl"}}

\* subprocess.check_output(cmd): raises TypeError before the tool is started
\* when an element of cmd is neither str, bytes nor os.PathLike (a Version
\* defines no __fspath__); otherwise it returns, or raises
\* CalledProcessError on a non-zero exit
CheckOutput(cmd_ok) ==
    IF cmd_ok THEN {"ok", "CalledProcessError"} ELSE {"TypeError"}

Call(op, arg, outcome) ==
    calls' = Append(calls, [op |-> op, arg |-> arg, outcome |-> outcome])

Raise(exception) == pc' = "halted" /\ err' = exception

Goto(label) == pc' = label /\ err' = err

\* a new invocation: main() from the command line, upgrade_to(args) with the
\* version as a str (the type set_version and build_homebrew_package
\* declare), or build_homebrew_package(version) with a Version (the type
\* create_homebrew_formula declares)
Enter ==
    \/ /\ entry' = "main" /\ pc' = "sanity_check"
       /\ env' \in [python : PythonVersions, wheel : BOOLEAN]
       /\ argv' \in {Some(a) : a \in [version : ArgvVersions,
                                      homebrew_set_default : BOOLEAN]}
       /\ args' = None
    \/ /\ entry' = "upgrade_to" /\ pc' = "set_version"
       /\ env' = [python |-> HOMEBREW_PYTHON, wheel |-> TRUE]
       /\ argv' = None
       /\ args' \in {Some([version |-> PyStr(s), homebrew_set_default |-> d]) :
                        s \in StrVersions, d \in BOOLEAN}
    \/ /\ entry' = "build_homebrew_package" /\ pc' = "make_venv"
       /\ env' = [python |-> HOMEBREW_PYTHON, wheel |-> TRUE]
       /\ argv' = None
       /\ args' \in {Some([version |-> PyVersion(v), homebrew_set_default |-> d]) :
                        v \in VersionObjects, d \in BOOLEAN}

Init ==
    /\ VersionIdle
    /\ poet_lines = << >> /\ poet_data = << >> /\ parts = None
    /\ run = 1
    /\ \E e \in {"main", "upgrade_to", "build_homebrew_package"} :
          /\ entry = e
          /\ pc = CASE e = "main" -> "sanity_check"
                    [] e = "upgrade_to" -> "set_version"
                    [] OTHER -> "make_venv"
          /\ env \in IF e = "main" THEN [python : PythonVersions, wheel : BOOLEAN]
                     ELSE {[python |-> HOMEBREW_PYTHON, wheel |-> TRUE]}
          /\ argv \in IF e = "main"
                      THEN {Some(a) : a \in [version : ArgvVersions,
                                             homebrew_set_default : BOOLEAN]}
                      ELSE {None}
          /\ args \in CASE e = "main" -> {None}
                        [] e = "upgrade_to" ->
                             {Some([version |-> PyStr(s), homebrew_set_default |-> d]) :
                                 s \in StrVersions, d \in BOOLEAN}
                        [] OTHER ->
                             {Some([version |-> PyVersion(v), homebrew_set_default |-> d]) :
                                 v \in VersionObjects, d \in BOOLEAN}
    /\ err = "none" /\ calls = << >>
    /\ sub_idx = 0
    /\ tree_version = V0151
    /\ dist = [t \in Targets |-> {}]
    /\ sub_pkgs = {}
    /\ test_index = {} /\ prod_index = {}
    /\ venv = "absent"
    /\ template = None
    /\ formulas = [f \in FormulaPaths \cup {DefaultPath} |->
                       IF f = DefaultPath THEN Some(DefaultFormula) ELSE None]
    /\ staged = {} /\ committed = {}
    /\ returned = None

\* the script, or one of its functions, is invoked again after a run ended
Rerun ==
    /\ pc \in {"halted", "done"}
    /\ run < MaxRuns
    /\ run' = run + 1
    /\ Enter
    /\ err' = "none" /\ calls' = << >> /\ sub_idx' = 0 /\ sub_pkgs' = {}
    /\ template' = None /\ returned' = None
    /\ poet_data' = << >> /\ parts' = None
    /\ UNCHANGED <<versionVars, poet_lines, tree_version, dist, indexVars,
                   venv, formulas, staged, committed>>

\* a variant of SanityCheck that prints its messages and does not exit
SanityCheckWithoutExit ==
    /\ pc = "sanity_check"
    /\ Goto("parse")
    /\ UNCHANGED <<versionVars, extractVars, calls, runVars, buildVars,
                   indexVars, brewVars>>

\* sanity_check
SanityCheck ==
    /\ pc = "sanity_check"
    /\ IF env.python /= HOMEBREW_PYTHON THEN Raise("SystemExit")
       ELSE IF ~env.wheel THEN Raise("SystemExit")
       ELSE Goto("parse")
    /\ UNCHANGED <<versionVars, extractVars, calls, runVars, buildVars,
                   indexVars, brewVars>>

\* Arguments.parse: type=Version constructs the Version from argv
ArgumentsParse ==
    /\ pc = "parse"
    /\ LET parsed == VersionInit(Get(argv).version)
       IN  IF IsException(parsed)
           THEN Raise(parsed.exception) /\ args' = args
           ELSE /\ Goto("set_version")
                /\ args' = Some([version |-> PyVersion(parsed),
                                 homebrew_set_default |-> Get(argv).homebrew_set_default])
    /\ UNCHANGED <<versionVars, extractVars, calls, run, entry, env, argv,
                   buildVars, indexVars, brewVars>>

\* set_version(args.path, args.version, args.part): args.version itself is
\* an element of the bumpversion command line
SetVersion ==
    /\ pc = "set_version"
    /\ \E outcome \in CheckOutput(Get(args).version.type = "str") :
          /\ Call("bumpversion", "--new-version", outcome)
          /\ IF outcome = "ok"
             THEN Goto("clean_dist") /\ tree_version' = StrOf(Get(args).version)
             ELSE Raise(outcome) /\ tree_version' = tree_version
    /\ UNCHANGED <<versionVars, extractVars, runVars, sub_idx, dist, sub_pkgs,
                   indexVars, brewVars>>

\* a variant of CleanDist that leaves an existing dist directory in place
CleanDistKeeping ==
    /\ pc = "clean_dist"
    /\ Call("rmtree", MainPackage, "ok")
    /\ dist' = dist
    /\ sub_pkgs' = {}
    /\ sub_idx' = 1
    /\ Goto("clean_sub")
    /\ UNCHANGED <<versionVars, extractVars, runVars, tree_version, indexVars,
                   brewVars>>

\* build_pypi_packages: with clean_dist(dbt_path), sub_pkgs = []
CleanDist ==
    /\ pc = "clean_dist"
    /\ Call("rmtree", MainPackage, "ok")
    /\ dist' = [dist EXCEPT ![MainPackage] = {}]
    /\ sub_pkgs' = {}
    /\ sub_idx' = 1
    /\ Goto("clean_sub")
    /\ UNCHANGED <<versionVars, extractVars, runVars, tree_version, indexVars,
                   brewVars>>

\* build_pypi_packages: with clean_dist(subpath)
CleanSubDist ==
    /\ pc = "clean_sub"
    /\ Call("rmtree", SUBPACKAGES[sub_idx], "ok")
    /\ dist' = [dist EXCEPT ![SUBPACKAGES[sub_idx]] = {}]
    /\ Goto("build_sub")
    /\ UNCHANGED <<versionVars, extractVars, runVars, sub_idx, tree_version,
                   sub_pkgs, indexVars, brewVars>>

\* a variant of BuildSubpackage that, when the build fails, removes the dist
\* directories of the subpackages built before it
BuildSubpackageCleaningUp ==
    /\ pc = "build_sub"
    /\ LET target == SUBPACKAGES[sub_idx]
       IN  \E outcome \in CheckOutput(TRUE) :
              /\ Call("setup.py", target, outcome)
              /\ IF outcome = "ok"
                 THEN /\ dist' = [dist EXCEPT ![target] =
                                     @ \cup Built(target, tree_version)]
                      /\ sub_pkgs' = sub_pkgs \cup all_packages_in(dist'[target])
                      /\ IF sub_idx < Len(SUBPACKAGES)
                         THEN sub_idx' = sub_idx + 1 /\ Goto("clean_sub")
                         ELSE sub_idx' = sub_idx /\ Goto("build_main")
                 ELSE /\ dist' = [t \in Targets |->
                                     IF t = MainPackage THEN dist[t] ELSE {}]
                      /\ Raise(outcome)
                      /\ UNCHANGED <<sub_pkgs, sub_idx>>
    /\ UNCHANGED <<versionVars, extractVars, runVars, tree_version, indexVars,
                   brewVars>>

\* a variant of BuildSubpackage that does not check the build's exit status
BuildSubpackageUnchecked ==
    /\ pc = "build_sub"
    /\ LET target == SUBPACKAGES[sub_idx]
       IN  \E outcome \in CheckOutput(TRUE) :
              /\ Call("setup.py", target, outcome)
              /\ dist' = [dist EXCEPT ![target] =
                             IF outcome = "ok" THEN @ \cup Built(target, tree_version)
                             ELSE @]
              /\ sub_pkgs' = sub_pkgs \cup all_packages_in(dist'[target])
              /\ IF sub_idx < Len(SUBPACKAGES)
                 THEN sub_idx' = sub_idx + 1 /\ Goto("clean_sub")
                 ELSE sub_idx' = sub_idx /\ Goto("build_main")
    /\ UNCHANGED <<versionVars, extractVars, runVars, tree_version, indexVars,
                   brewVars>>

\* build_pypi_packages: build_pypi_package(subpath), then
\* sub_pkgs.extend(_all_packages_in(sub_dist)); a failed build may leave the
\* sdist behind
BuildSubpackage ==
    /\ pc = "build_sub"
    /\ LET target == SUBPACKAGES[sub_idx]
       IN  \E outcome \in CheckOutput(TRUE) :
              /\ Call("setup.py", target, outcome)
              /\ IF outcome = "ok"
                 THEN /\ dist' = [dist EXCEPT ![target] =
                                     @ \cup Built(target, tree_version)]
                      /\ sub_pkgs' = sub_pkgs \cup all_packages_in(dist'[target])
                      /\ IF sub_idx < Len(SUBPACKAGES)
                         THEN sub_idx' = sub_idx + 1 /\ Goto("clean_sub")
                         ELSE sub_idx' = sub_idx /\ Goto("build_main")
                 ELSE /\ \E left \in {{}, {f \in Built(target, tree_version) :
                                              f.ext = "tar.gz"}} :
                            dist' = [dist EXCEPT ![target] = @ \cup left]
                      /\ Raise(outcome)
                      /\ UNCHANGED <<sub_pkgs, sub_idx>>
    /\ UNCHANGED <<versionVars, extractVars, runVars, tree_version, indexVars,
                   brewVars>>

\* a variant of BuildMainPackage that copies the subpackage artifacts before
\* it builds the main package
BuildMainPackageCopyingFirst ==
    /\ pc = "build_main"
    /\ \E outcome \in CheckOutput(TRUE) :
          /\ Call("setup.py", MainPackage, outcome)
          /\ IF outcome = "ok"
             THEN /\ dist' = [dist EXCEPT ![MainPackage] =
                                 @ \cup Built(MainPackage, tree_version)
                                   \cup sub_pkgs]
                  /\ Goto("upload_test")
             ELSE /\ dist' = [dist EXCEPT ![MainPackage] = @ \cup sub_pkgs]
                  /\ Raise(outcome)
    /\ UNCHANGED <<versionVars, extractVars, runVars, sub_idx, tree_version,
                   sub_pkgs, indexVars, brewVars>>

\* build_pypi_packages: build_pypi_package(dbt_path), then the copy of every
\* collected subpackage artifact into dist_path
BuildMainPackage ==
    /\ pc = "build_main"
    /\ \E outcome \in CheckOutput(TRUE) :
          /\ Call("setup.py", MainPackage, outcome)
          /\ IF outcome = "ok"
             THEN /\ dist' = [dist EXCEPT ![MainPackage] =
                                 @ \cup Built(MainPackage, tree_version)
                                   \cup sub_pkgs]
                  /\ Goto("upload_test")
             ELSE /\ \E left \in {{}, {f \in Built(MainPackage, tree_version) :
                                          f.ext = "tar.gz"}} :
                        dist' = [dist EXCEPT ![MainPackage] = @ \cup left]
                  /\ Raise(outcome)
    /\ UNCHANGED <<versionVars, extractVars, runVars, sub_idx, tree_version,
                   sub_pkgs, indexVars, brewVars>>

\* a variant of UploadTest after which upgrade_to does not wait for the operator
UploadTestWithoutPrompt ==
    /\ pc = "upload_test"
    /\ \E outcome \in CheckOutput(TRUE) :
          /\ Call("twine", "pypitest", outcome)
          /\ IF outcome = "ok"
             THEN /\ test_index' = test_index \cup all_packages_in(dist[MainPackage])
                  /\ Goto("upload_prod")
             ELSE Raise(outcome) /\ test_index' = test_index
    /\ UNCHANGED <<versionVars, extractVars, runVars, buildVars, prod_index,
                   brewVars>>

\* upload_pypi_packages(dist_path): twine upload --repository pypitest
UploadTest ==
    /\ pc = "upload_test"
    /\ \E outcome \in CheckOutput(TRUE) :
          /\ Call("twine", "pypitest", outcome)
          /\ IF outcome = "ok"
             THEN /\ test_index' = test_index \cup all_packages_in(dist[MainPackage])
                  /\ Goto("input")
             ELSE Raise(outcome) /\ test_index' = test_index
    /\ UNCHANGED <<versionVars, extractVars, runVars, buildVars, prod_index,
                   brewVars>>

\* input(...): returns when the operator answers; Ctrl-C or end of input
\* raises
Confirm ==
    /\ pc = "input"
    /\ \E outcome \in {"ok", "KeyboardInterrupt"} :
          /\ Call("input", "prompt", outcome)
          /\ IF outcome = "ok" THEN Goto("upload_prod") ELSE Raise(outcome)
    /\ UNCHANGED <<versionVars, extractVars, runVars, buildVars, indexVars,
                   brewVars>>

\* a variant of UploadProd that leaves test at its default of True
UploadProdToStaging ==
    /\ pc = "upload_prod"
    /\ \E outcome \in CheckOutput(TRUE) :
          /\ Call("twine", "pypitest", outcome)
          /\ IF outcome = "ok"
             THEN /\ test_index' = test_index \cup all_packages_in(dist[MainPackage])
                  /\ Goto("make_venv")
             ELSE Raise(outcome) /\ test_index' = test_index
    /\ UNCHANGED <<versionVars, extractVars, runVars, buildVars, prod_index,
                   brewVars>>

\* upload_pypi_packages(dist_path, test=False)
UploadProd ==
    /\ pc = "upload_prod"
    /\ \E outcome \in CheckOutput(TRUE) :
          /\ Call("twine", "pypi", outcome)
          /\ IF outcome = "ok"
             THEN /\ prod_index' = prod_index \cup all_packages_in(dist[MainPackage])
                  /\ Goto("make_venv")
             ELSE Raise(outcome) /\ prod_index' = prod_index
    /\ UNCHANGED <<versionVars, extractVars, runVars, buildVars, test_index,
                   brewVars>>

\* homebrew_formula_template: make_venv removes build/tmp-venv and creates
\* it anew; PoetVirtualenv.post_setup pip-installs homebrew-pypi-poet and
\* dbt==<version> into it
MakeVenv ==
    /\ pc = "make_venv"
    /\ \E outcome \in CheckOutput(TRUE) :
          /\ Call("pip", "install", outcome)
          /\ IF outcome = "ok"
             THEN venv' = "ready" /\ Goto("poet_s")
             ELSE venv' = "created" /\ Raise(outcome)
    /\ UNCHANGED <<versionVars, extractVars, runVars, buildVars, indexVars,
                   template, formulas, staged, committed, returned>>

\* homebrew_formula_template: output = check_output([poet, '-s', 'dbt']),
\* then url_data, hash_data = _extract_parts(output)
PoetSource ==
    /\ pc = "poet_s"
    /\ \E outcome \in CheckOutput(TRUE) :
          /\ Call("poet", "-s", outcome)
          /\ IF outcome = "ok"
             THEN \E output \in PoetOutputs :
                     /\ poet_data' = output
                     /\ parts' = Some(UnpackParts(output))
                     /\ IF IsException(UnpackParts(output))
                        THEN Raise(UnpackParts(output).exception)
                        ELSE Goto("poet_r")
             ELSE Raise(outcome) /\ UNCHANGED <<poet_data, parts>>
    /\ UNCHANGED <<versionVars, poet_lines, runVars, buildVars, indexVars,
                   brewVars>>

\* homebrew_formula_template: dependencies = check_output([poet, '-r',
\* 'dbt']), then the DbtHomebrewTemplate
PoetResourcesCall ==
    /\ pc = "poet_r"
    /\ \E outcome \in CheckOutput(TRUE) :
          /\ Call("poet", "-r", outcome)
          /\ IF outcome = "ok"
             THEN \E dependencies \in PoetResources :
                     /\ template' = Some([url_data |-> Get(parts).url_data,
                                          hash_data |-> Get(parts).hash_data,
                                          dependencies |-> dependencies,
                                          version |-> Get(args).version])
                     /\ Goto("create_formula")
             ELSE Raise(outcome) /\ template' = template
    /\ UNCHANGED <<versionVars, extractVars, runVars, buildVars, indexVars,
                   venv, formulas, staged, committed, returned>>

\* DbtHomebrewTemplate.contents(versioned): the fields interpolated into
\* DBT_HOMEBREW_FORMULA
Contents(t, versioned) ==
    [formula_name |-> IF versioned THEN homebrew_class_name(t.version.value)
                      ELSE <<"D", "b", "t">>,
     url_data |-> t.url_data,
     hash_data |-> t.hash_data,
     version |-> StrOf(t.version),
     dependencies |-> t.dependencies]

\* a variant of CreateHomebrewFormula that writes over an existing file
CreateHomebrewFormulaOverwriting ==
    /\ pc = "create_formula"
    /\ LET ver == Get(args).version
           homebrew_formula_path == homebrew_filename(ver.value)
       IN  IF ver.type /= "Version"
           THEN /\ Call("write_text", "formula", "AttributeError")
                /\ Raise("AttributeError")
                /\ formulas' = formulas
           ELSE /\ Call("write_text", "formula", "ok")
                /\ formulas' = [formulas EXCEPT ![homebrew_formula_path] =
                                   Some(Contents(Get(template), TRUE))]
                /\ Goto("brew_uninstall")
    /\ UNCHANGED <<versionVars, extractVars, runVars, buildVars, indexVars,
                   venv, template, staged, committed, returned>>

\* a variant of CreateHomebrewFormula that keeps an existing file and goes on
CreateHomebrewFormulaKeeping ==
    /\ pc = "create_formula"
    /\ LET ver == Get(args).version
           homebrew_formula_path == homebrew_filename(ver.value)
       IN  IF ver.type /= "Version"
           THEN /\ Call("write_text", "formula", "AttributeError")
                /\ Raise("AttributeError")
                /\ formulas' = formulas
           ELSE /\ Call("write_text", "formula", "ok")
                /\ formulas' = IF formulas[homebrew_formula_path] /= None
                               THEN formulas
                               ELSE [formulas EXCEPT ![homebrew_formula_path] =
                                        Some(Contents(Get(template), TRUE))]
                /\ Goto("brew_uninstall")
    /\ UNCHANGED <<versionVars, extractVars, runVars, buildVars, indexVars,
                   venv, template, staged, committed, returned>>

\* create_homebrew_formula: template.contents() and version.homebrew_filename()
\* are methods of Version (a str has neither: AttributeError); an existing
\* file raises ValueError; otherwise the file is written
CreateHomebrewFormula ==
    /\ pc = "create_formula"
    /\ LET ver == Get(args).version
           homebrew_formula_path == homebrew_filename(ver.value)
       IN  IF ver.type /= "Version"
           THEN /\ Call("write_text", "formula", "AttributeError")
                /\ Raise("AttributeError")
                /\ formulas' = formulas
           ELSE IF formulas[homebrew_formula_path] /= None
           THEN /\ Call("write_text", "formula", "ValueError")
                /\ Raise("ValueError")
                /\ formulas' = formulas
           ELSE /\ Call("write_text", "formula", "ok")
                /\ formulas' = [formulas EXCEPT ![homebrew_formula_path] =
                                   Some(Contents(Get(template), TRUE))]
                /\ Goto("brew_uninstall")
    /\ UNCHANGED <<versionVars, extractVars, runVars, buildVars, indexVars,
                   venv, template, staged, committed, returned>>

\* one subprocess.check_output step of homebrew_run_tests or
\* homebrew_commit_formula
Step(at, op, arg, next) ==
    /\ pc = at
    /\ \E outcome \in CheckOutput(TRUE) :
          /\ Call(op, arg, outcome)
          /\ IF outcome = "ok" THEN Goto(next) ELSE Raise(outcome)

\* homebrew_run_tests: brew uninstall --force <formula_path>
BrewUninstall ==
    /\ Step("brew_uninstall", "brew", "uninstall", "brew_install")
    /\ UNCHANGED <<versionVars, extractVars, runVars, buildVars, indexVars,
                   brewVars>>

\* homebrew_run_tests: brew install <formula_path>
BrewInstall ==
    /\ Step("brew_install", "brew", "install", "brew_test")
    /\ UNCHANGED <<versionVars, extractVars, runVars, buildVars, indexVars,
                   brewVars>>

\* homebrew_run_tests: brew test dbt
BrewTest ==
    /\ Step("brew_test", "brew", "test", "brew_audit")
    /\ UNCHANGED <<versionVars, extractVars, runVars, buildVars, indexVars,
                   brewVars>>

\* a variant of BrewAudit that does not check the audit's exit status
BrewAuditUnchecked ==
    /\ pc = "brew_audit"
    /\ \E outcome \in CheckOutput(TRUE) :
          /\ Call("brew", "audit", outcome)
          /\ Goto("git_add")
    /\ UNCHANGED <<versionVars, extractVars, runVars, buildVars, indexVars,
                   brewVars>>

\* homebrew_run_tests: brew audit --strict dbt
BrewAudit ==
    /\ Step("brew_audit", "brew", "audit", "git_add")
    /\ UNCHANGED <<versionVars, extractVars, runVars, buildVars, indexVars,
                   brewVars>>

\* homebrew_commit_formula: git add <formula_path>
GitAdd ==
    /\ Step("git_add", "git", "add", "git_commit")
    /\ staged' = IF pc' = "git_commit"
                 THEN staged \cup {homebrew_filename(Get(args).version.value)}
                 ELSE staged
    /\ UNCHANGED <<versionVars, extractVars, runVars, buildVars, indexVars,
                   venv, template, formulas, committed, returned>>

\* homebrew_commit_formula: git commit -m 'add dbt@<version>'
GitCommit ==
    /\ Step("git_commit", "git", "commit", "set_default")
    /\ committed' = IF pc' = "set_default" THEN committed \cup staged ELSE committed
    /\ staged' = IF pc' = "set_default" THEN {} ELSE staged
    /\ UNCHANGED <<versionVars, extractVars, runVars, buildVars, indexVars,
                   venv, template, formulas, returned>>

\* a variant of SetDefault that returns the formula path whatever the flag
SetDefaultIgnoringFlag ==
    /\ pc = "set_default"
    /\ Goto("done")
    /\ returned' = Some(homebrew_filename(Get(args).version.value))
    /\ UNCHANGED <<versionVars, extractVars, calls, runVars, buildVars,
                   indexVars, venv, template, formulas, staged, committed>>

\* build_homebrew_package: if set_default: assert False, 'should not be
\* set!!!'; otherwise return formula_path.  An interpreter started with -O
\* (or PYTHONOPTIMIZE) compiles the assert statement away and goes on to
\* set_default_homebrew_package.
SetDefault ==
    /\ pc = "set_default"
    /\ IF Get(args).homebrew_set_default
       THEN /\ \E optimized \in BOOLEAN :
                  IF optimized THEN Goto("default_remove")
                  ELSE Raise("AssertionError")
            /\ returned' = returned
       ELSE /\ Goto("done")
            /\ returned' = Some(homebrew_filename(Get(args).version.value))
    /\ UNCHANGED <<versionVars, extractVars, calls, runVars, buildVars,
                   indexVars, venv, template, formulas, staged, committed>>

\* set_default_homebrew_package: os.remove(default_path)
DefaultRemove ==
    /\ pc = "default_remove"
    /\ IF formulas[DefaultPath] = None
       THEN /\ Call("set_default", "os.remove", "FileNotFoundError")
            /\ Raise("FileNotFoundError")
            /\ formulas' = formulas
       ELSE /\ Call("set_default", "os.remove", "ok")
            /\ formulas' = [formulas EXCEPT ![DefaultPath] = None]
            /\ Goto("default_write")
    /\ UNCHANGED <<versionVars, extractVars, runVars, buildVars, indexVars,
                   venv, template, staged, committed, returned>>

\* set_default_homebrew_package:
\* default_path.write_text(template.contents(versioned=False))
DefaultWrite ==
    /\ pc = "default_write"
    /\ Call("set_default", "write_text", "ok")
    /\ formulas' = [formulas EXCEPT ![DefaultPath] =
                       Some(Contents(Get(template), FALSE))]
    /\ Goto("default_git_add")
    /\ UNCHANGED <<versionVars, extractVars, runVars, buildVars, indexVars,
                   venv, template, staged, committed, returned>>

\* set_default_homebrew_package: check_output(['git', 'add', default_path])
DefaultGitAdd ==
    /\ Step("default_git_add", "set_default", "git add", "default_git_commit")
    /\ staged' = IF pc' = "default_git_commit"
                 THEN staged \cup {DefaultPath} ELSE staged
    /\ UNCHANGED <<versionVars, extractVars, runVars, buildVars, indexVars,
                   venv, template, formulas, committed, returned>>

\* set_default_homebrew_package: check_output('git', 'commit', '-m', ...):
\* the command is not one list, so 'commit' is taken for Popen's bufsize
\* and the call raises TypeError before git starts; were it to return,
\* build_homebrew_package would return formula_path
DefaultGitCommit ==
    /\ pc = "default_git_commit"
    /\ \E outcome \in CheckOutput(FALSE) :
          /\ Call("set_default", "git commit", outcome)
          /\ IF outcome = "ok"
             THEN /\ Goto("done")
                  /\ committed' = committed \cup staged /\ staged' = {}
                  /\ returned' = Some(homebrew_filename(Get(args).version.value))
             ELSE /\ Raise(outcome)
                  /\ UNCHANGED <<staged, committed, returned>>
    /\ UNCHANGED <<versionVars, extractVars, runVars, buildVars, indexVars,
                   venv, template, formulas>>

Next ==
    \/ Rerun
    \/ SanityCheck
    \/ ArgumentsParse
    \/ SetVersion
    \/ CleanDist
    \/ CleanSubDist
    \/ BuildSubpackage
    \/ BuildMainPackage
    \/ UploadTest
    \/ Confirm
    \/ UploadProd
    \/ MakeVenv
    \/ PoetSource
    \/ PoetResourcesCall
    \/ CreateHomebrewFormula
    \/ BrewUninstall
    \/ BrewInstall
    \/ BrewTest
    \/ BrewAudit
    \/ GitAdd
    \/ GitCommit
    \/ SetDefault
    \/ DefaultRemove
    \/ DefaultWrite
    \/ DefaultGitAdd
    \/ DefaultGitCommit

Spec == Init /\ [][Next]_vars

\* the interpreter goes on to the next statement of build_homebrew_package
\* once the formula is committed
AfterCommit ==
    SetDefault \/ DefaultRemove \/ DefaultWrite \/ DefaultGitAdd \/ DefaultGitCommit

SpecFair == Spec /\ WF_vars(AfterCommit)

-----------------------------------------------------------------------------
(* What the claims about the release run say, stated over the run's calls *)

\* the stage an operation belongs to: 1 version bump, 2 package build,
\* 3 staging upload, 4 operator confirmation, 5 production upload,
\* 6 formula extraction, 7 formula write, 8 formula verification, 9 commit
StageOf(c) ==
    CASE c.op = "bumpversion" -> 1
      [] c.op \in {"rmtree", "setup.py"} -> 2
      [] c.op = "twine" /\ c.arg = "pypitest" -> 3
      [] c.op = "input" -> 4
      [] c.op = "twine" /\ c.arg = "pypi" -> 5
      [] c.op \in {"pip", "poet"} -> 6
      [] c.op = "write_text" -> 7
      [] c.op = "brew" -> 8
      [] c.op = "git" -> 9
      [] c.op = "set_default" -> 10

\* the operations that make up each stage, in order
StageOps ==
    << << <<"bumpversion", "--new-version">> >>,
       << <<"rmtree", ".">>,
          <<"rmtree", "core">>, <<"setup.py", "core">>,
          <<"rmtree", "plugins/postgres">>, <<"setup.py", "plugins/postgres">>,
          <<"rmtree", "plugins/redshift">>, <<"setup.py", "plugins/redshift">>,
          <<"rmtree", "plugins/bigquery">>, <<"setup.py", "plugins/bigquery">>,
          <<"rmtree", "plugins/snowflake">>, <<"setup.py", "plugins/snowflake">>,
          <<"setup.py", ".">> >>,
       << <<"twine", "pypitest">> >>,
       << <<"input", "prompt">> >>,
       << <<"twine", "pypi">> >>,
       << <<"pip", "install">>, <<"poet", "-s">>, <<"poet", "-r">> >>,
       << <<"write_text", "formula">> >>,
       << <<"brew", "uninstall">>, <<"brew", "install">>, <<"brew", "test">>,
          <<"brew", "audit">> >>,
       << <<"git", "add">>, <<"git", "commit">> >>,
       << <<"set_default", "os.remove">>, <<"set_default", "write_text">>,
          <<"set_default", "git add">>, <<"set_default", "git commit">> >> >>

OpOf(c) == <<c.op, c.arg>>
Succeeded(c) == c.outcome = "ok"
IsPrefix(s, t) == Len(s) <= Len(t) /\ s = SubSeq(t, 1, Len(s))

\* the calls of stage s that the current run has made
StageCalls(s) ==
    LET InStage(c) == StageOf(c) = s
    IN  SelectSeq(calls, InStage)

\* stage s ran all its operations and each succeeded
StageCompleted(s) ==
    LET done == StageCalls(s)
    IN  /\ [i \in DOMAIN done |-> OpOf(done[i])] = StageOps[s]
        /\ \A i \in DOMAIN done : Succeeded(done[i])

Entered(s) == \E i \in DOMAIN calls : StageOf(calls[i]) = s
UpgradeRun == entry \in {"main", "upgrade_to"}

\* C1: in every run of upgrade_to the stages are entered only in the order
\* version bump, package build, staging upload, confirmation, production
\* upload, extraction, write, verification, commit; a stage is entered only
\* if every stage before it completed successfully in the same run, and no
\* stage is entered twice or skipped.
C1_StagesInOrder ==
    /\ \A i \in 2..Len(calls) :
          LET before == StageOf(calls[i - 1])
              here == StageOf(calls[i])
          IN  /\ here \in {before, before + 1}
              /\ here /= before => StageCompleted(before)
    /\ \A s \in DOMAIN StageOps :
          LET done == StageCalls(s)
          IN  IsPrefix([i \in DOMAIN done |-> OpOf(done[i])], StageOps[s])
    /\ UpgradeRun /\ calls /= << >> => StageOf(calls[1]) = 1
    /\ UpgradeRun =>
          \A s \in DOMAIN StageOps : Entered(s) =>
              \A b \in 1..(s - 1) : StageCompleted(b)

\* C1 witness: a run of upgrade_to has entered the first seven stages
C1_Witness ==
    /\ entry = "upgrade_to"
    /\ \A s \in 1..7 : Entered(s)
    /\ \A s \in 1..6 : StageCompleted(s)

Failed(c) == ~Succeeded(c)
LaterStageOps == {"twine", "input", "pip", "poet", "write_text", "brew", "git"}

\* C2 (state part): a failed invocation is the run's last, the run is halted
\* with it, and nothing is invoked twice; after a failed build of the second
\* subpackage no upload, prompt, extraction, write, verification or commit
\* is invoked.
C2_FailedCallIsLast ==
    /\ \A i \in DOMAIN calls :
          Failed(calls[i]) => (i = Len(calls) /\ pc = "halted"
                               /\ err = calls[i].outcome)
    /\ \A i, j \in DOMAIN calls : OpOf(calls[i]) = OpOf(calls[j]) => i = j
    /\ (\E i \in DOMAIN calls :
           OpOf(calls[i]) = <<"setup.py", SUBPACKAGES[2]>> /\ Failed(calls[i]))
         => \A j \in DOMAIN calls : calls[j].op \notin LaterStageOps

\* C2 (step part): the step that fails, and a halted run, undo nothing: the
\* bumped version, the uploads, the formula files and the commits stay, and
\* no dist directory changes but that of the target being built.
C2_NothingRolledBack ==
    (pc' = "halted" /\ run' = run) =>
        /\ tree_version' = tree_version
        /\ test_index \subseteq test_index' /\ prod_index \subseteq prod_index'
        /\ formulas' = formulas
        /\ staged \subseteq staged' /\ committed \subseteq committed'
        /\ \A t \in Targets : dist'[t] /= dist[t] =>
              \/ pc = "build_sub" /\ t = SUBPACKAGES[sub_idx]
              \/ pc = "build_main" /\ t = MainPackage

\* C2: when an external invocation fails the run halts at once: no later
\* invocation is made, the failed one is not retried, and no earlier effect
\* is rolled back.
C2_FailureHalts == [](C2_FailedCallIsLast) /\ [][C2_NothingRolledBack]_vars

\* C2 witness: upgrade_to halted on the failed build of the second
\* subpackage, with the version bumped and core's artifacts still on disk
C2_Witness ==
    /\ entry = "upgrade_to" /\ pc = "halted" /\ err = "CalledProcessError"
    /\ calls /= << >>
    /\ calls[Len(calls)] = [op |-> "setup.py", arg |-> SUBPACKAGES[2],
                            outcome |-> "CalledProcessError"]
    /\ tree_version = StrOf(Get(args).version)
    /\ dist[SUBPACKAGES[1]] = Built(SUBPACKAGES[1], tree_version)

Uploads ==
    LET IsUpload(c) == c.op = "twine"
    IN  SelectSeq(calls, IsUpload)

\* C3: a run that got past the uploads invoked the upload exactly twice,
\* staging first and production second; the production upload is invoked
\* only after the staging upload succeeded and the prompt was answered; at
\* the prompt no production upload, extraction, write, verification or
\* commit has been executed.
C3_TwoUploadsAroundPrompt ==
    /\ IsPrefix([i \in DOMAIN Uploads |-> Uploads[i].arg], <<"pypitest", "pypi">>)
    /\ (UpgradeRun /\ \E s \in 6..9 : Entered(s)) =>
          Uploads = << [op |-> "twine", arg |-> "pypitest", outcome |-> "ok"],
                       [op |-> "twine", arg |-> "pypi", outcome |-> "ok"] >>
    /\ \A j \in DOMAIN calls : OpOf(calls[j]) = <<"twine", "pypi">> =>
          \E i, k \in 1..(j - 1) :
              /\ i < k
              /\ calls[i] = [op |-> "twine", arg |-> "pypitest", outcome |-> "ok"]
              /\ calls[k] = [op |-> "input", arg |-> "prompt", outcome |-> "ok"]
    /\ pc = "input" =>
          /\ \A s \in 4..9 : ~Entered(s)
          /\ calls[Len(calls)] = [op |-> "twine", arg |-> "pypitest", outcome |-> "ok"]

\* C3 witness: a run of upgrade_to made both uploads and went on
C3_Witness ==
    /\ entry = "upgrade_to"
    /\ Len(Uploads) = 2
    /\ Entered(6)

Verification ==
    LET IsBrew(c) == c.op = "brew"
    IN  SelectSeq(calls, IsBrew)

\* C4: the commit is invoked only after force-uninstall, install, test and
\* strict audit were each invoked, in that order, and each succeeded in the
\* same run; a failing step prevents the later steps and the commit.
C4_CommitOnlyVerified ==
    /\ IsPrefix([i \in DOMAIN Verification |-> Verification[i].arg],
                <<"uninstall", "install", "test", "audit">>)
    /\ \A j \in DOMAIN calls : calls[j].op = "git" =>
          LET IsBrew(c) == c.op = "brew"
          IN  SelectSeq(SubSeq(calls, 1, j - 1), IsBrew)
                = << [op |-> "brew", arg |-> "uninstall", outcome |-> "ok"],
                     [op |-> "brew", arg |-> "install", outcome |-> "ok"],
                     [op |-> "brew", arg |-> "test", outcome |-> "ok"],
                     [op |-> "brew", arg |-> "audit", outcome |-> "ok"] >>
    /\ \A i \in DOMAIN calls :
          (calls[i].op = "brew" /\ Failed(calls[i])) =>
              (i = Len(calls) /\ pc = "halted")

\* C4 witness: a run committed its formula
C4_Witness ==
    /\ calls /= << >>
    /\ calls[Len(calls)] = [op |-> "git", arg |-> "commit", outcome |-> "ok"]
    /\ homebrew_filename(Get(args).version.value) \in committed

WriteCalls ==
    LET IsWrite(c) == c.op = "write_text"
    IN  SelectSeq(calls, IsWrite)

FormulaPath == homebrew_filename(Get(args).version.value)
WriteOnExisting ==
    /\ pc = "create_formula"
    /\ Get(args).version.type = "Version"
    /\ formulas[FormulaPath] /= None

\* C5: a call of create_homebrew_formula for a version whose formula file an
\* earlier call wrote fails with the ValueError ('already exists') and
\* leaves the file's contents as they are.
C5_SecondWriteFails ==
    [][WriteOnExisting =>
          (pc' = "halted" /\ err' = "ValueError" /\ formulas' = formulas)]_vars

\* C5 witness: the second call, which had other contents to write, failed
C5_Witness ==
    /\ run = 2 /\ pc = "halted" /\ err = "ValueError"
    /\ WriteCalls /= << >>
    /\ formulas[FormulaPath] /= None
    /\ Get(formulas[FormulaPath]) /= Contents(Get(template), TRUE)

\* C6 (state part): a run that found the formula file present at its write
\* stage is halted with the ValueError and has invoked neither verification
\* nor commit; a run that commits has written the file itself.
C6_ExistingFileStopsRun ==
    /\ (WriteCalls /= << >> /\ WriteCalls[1].outcome = "ValueError") =>
          /\ pc = "halted" /\ err = "ValueError"
          /\ \A i \in DOMAIN calls : calls[i].op \notin {"brew", "git"}
    /\ (\E i \in DOMAIN calls : calls[i].op \in {"brew", "git"}) =>
          (WriteCalls /= << >> /\ WriteCalls[1].outcome = "ok")

\* C6 (step part): the write stage changes neither the file that is present
\* nor the homebrew repository.
C6_ExistingFileKept ==
    WriteOnExisting =>
        /\ formulas'[FormulaPath] = formulas[FormulaPath]
        /\ staged' = staged /\ committed' = committed
        /\ pc' \notin {"brew_uninstall", "git_add", "git_commit", "done"}

\* C6: a run that finds the version's formula file present at the write
\* stage halts with AlreadyExists, leaves the file unchanged and invokes
\* neither verification nor commit, so it cannot reach FormulaCommitted.
C6_RerunCannotCommit == [](C6_ExistingFileStopsRun) /\ [][C6_ExistingFileKept]_vars

\* C6 witness: a later run halted on the uncommitted file an earlier run left
C6_Witness ==
    /\ run > 1 /\ pc = "halted" /\ err = "ValueError"
    /\ WriteCalls /= << >>
    /\ \A i \in DOMAIN calls : calls[i].op \notin {"brew", "git"}
    /\ formulas[FormulaPath] /= None
    /\ FormulaPath \notin committed

BuildCalls ==
    LET IsBuild(c) == c.op = "setup.py"
    IN  SelectSeq(calls, IsBuild)

\* the order in which build_pypi_packages builds its targets
BuildOrder == SUBPACKAGES \o <<MainPackage>>

\* what the build tool writes for target t in the current run
Produced(t) == Built(t, tree_version)

\* the build stage of the current run succeeded
BuildStageSucceeded ==
    \E i \in DOMAIN calls :
        calls[i] = [op |-> "setup.py", arg |-> MainPackage, outcome |-> "ok"]

\* C14: the build tool is invoked once per target in the order core,
\* plugins/postgres, plugins/redshift, plugins/bigquery, plugins/snowflake,
\* main package; the main package is built only after all five subpackage
\* builds succeeded; the subpackage artifacts are copied only after the
\* main build succeeded; when the stage succeeds the release directory
\* holds every artifact of every subpackage and of the main package.
C14_BuildOrderAndAggregate ==
    /\ IsPrefix([i \in DOMAIN BuildCalls |-> BuildCalls[i].arg], BuildOrder)
    /\ \A j \in DOMAIN calls :
          OpOf(calls[j]) = <<"setup.py", MainPackage>> =>
              \A k \in DOMAIN SUBPACKAGES : \E i \in 1..(j - 1) :
                  calls[i] = [op |-> "setup.py", arg |-> SUBPACKAGES[k],
                              outcome |-> "ok"]
    /\ (Entered(2) /\ ~BuildStageSucceeded) =>
          \A f \in dist[MainPackage] : f.pkg = MainPackage
    /\ BuildStageSucceeded =>
          /\ \A k \in DOMAIN SUBPACKAGES :
                dist[SUBPACKAGES[k]] = Produced(SUBPACKAGES[k])
          /\ dist[MainPackage]
                = Produced(MainPackage)
                    \cup UNION {dist[SUBPACKAGES[k]] : k \in DOMAIN SUBPACKAGES}

\* C14 witness: the build stage has just succeeded with all twelve artifacts
\* in the release directory
C14_Witness ==
    /\ pc = "upload_test"
    /\ BuildStageSucceeded
    /\ Cardinality(dist[MainPackage]) = 2 * Len(BuildOrder)

\* the run ended on the failed build of the k-th target
BuildFailedAt(k) ==
    /\ calls /= << >>
    /\ calls[Len(calls)].op = "setup.py"
    /\ calls[Len(calls)].arg = BuildOrder[k]
    /\ Failed(calls[Len(calls)])

\* C15 (state part): after the failed build of target k no later target was
\* built, nothing was copied into the main package's dist, the dist
\* directories of the targets built before k hold what was produced, and
\* the version bump stands.
C15_AbortedBuild ==
    \A k \in DOMAIN BuildOrder : BuildFailedAt(k) =>
        /\ pc = "halted"
        /\ Len(BuildCalls) = k
        /\ \A f \in dist[MainPackage] : f.pkg = MainPackage
        /\ \A i \in 1..(k - 1) : dist[BuildOrder[i]] = Produced(BuildOrder[i])
        /\ tree_version = StrOf(Get(args).version)

\* C15 (step part): the failing build changes no dist directory but its own
\* target's and undoes nothing else.
C15_FailingBuildUndoesNothing ==
    (pc \in {"build_sub", "build_main"} /\ pc' = "halted") =>
        /\ \A t \in Targets :
              (t /= (IF pc = "build_sub" THEN SUBPACKAGES[sub_idx] ELSE MainPackage))
                  => dist'[t] = dist[t]
        /\ sub_pkgs' = sub_pkgs /\ tree_version' = tree_version
        /\ test_index' = test_index /\ prod_index' = prod_index

\* C15: when the build of target k fails the build stage aborts: no target
\* after k is built, no subpackage artifact is copied into the main
\* package's output directory, the output directories of the targets built
\* before k are left as they were produced, and nothing is rolled back.
C15_BuildFailureAborts ==
    [](C15_AbortedBuild) /\ [][C15_FailingBuildUndoesNothing]_vars

\* C15 witness: the build of the third target failed; the first two
\* targets' artifacts are on disk
C15_Witness ==
    /\ BuildFailedAt(3)
    /\ dist[BuildOrder[1]] = Produced(BuildOrder[1])
    /\ dist[BuildOrder[2]] = Produced(BuildOrder[2])
    /\ dist[BuildOrder[2]] /= {}

\* C16: every target's own dist directory is cleared before its build tool
\* is invoked in the same run, so the release directory of a successful
\* build stage holds only artifacts produced in the current run, whatever
\* earlier runs left behind.
C16_CleanBeforeBuild ==
    /\ \A j \in DOMAIN calls : calls[j].op = "setup.py" =>
          \E i \in 1..(j - 1) :
              calls[i] = [op |-> "rmtree", arg |-> calls[j].arg, outcome |-> "ok"]
    /\ pc = "build_sub" => dist[SUBPACKAGES[sub_idx]] = {}
    /\ pc = "build_main" => dist[MainPackage] = {}
    /\ BuildStageSucceeded =>
          dist[MainPackage] \subseteq UNION {Produced(t) : t \in Targets}

\* C16 witness: a second run built another version than the first, whose
\* artifacts are on the staging index and were in the dist directories
C16_Witness ==
    /\ run = 2
    /\ BuildStageSucceeded
    /\ \E f \in test_index : f.version /= tree_version
    /\ dist[MainPackage] /= {}

\* the default-pointer update has started: one of the operations of
\* set_default_homebrew_package was invoked in the current run
DefaultPointerEntered == Entered(10)

\* C12: the default-pointer update is never reached: in no run, with the
\* set-default flag or without it, is Formula/dbt.rb removed, rewritten or
\* committed.
C12_DefaultNeverTouched ==
    /\ ~DefaultPointerEntered
    /\ pc \notin {"default_remove", "default_write", "default_git_add",
                  "default_git_commit"}
    /\ formulas[DefaultPath] = Some(DefaultFormula)
    /\ DefaultPath \notin staged \cup committed

FlagSet == args /= None /\ Get(args).homebrew_set_default

\* the current run committed its versioned formula
FormulaCommitted ==
    \E i \in DOMAIN calls :
        calls[i] = [op |-> "git", arg |-> "commit", outcome |-> "ok"]

\* C19 (state part): the flag has no effect before the commit, and a run
\* with the flag set never returns the formula path.
C19_FlagOnlyAfterCommit ==
    /\ (err = "AssertionError" \/ DefaultPointerEntered
          \/ pc \in {"default_remove", "default_write", "default_git_add",
                     "default_git_commit"})
          => (FlagSet /\ StageCompleted(9))
    /\ FlagSet => (pc /= "done" /\ returned = None)
    /\ (FlagSet /\ FormulaCommitted /\ pc = "halted") => err /= "none"
    /\ pc = "done" => (~FlagSet /\ FormulaCommitted /\ returned /= None)

\* C19 (step part): the flag is read by the statement after the commit and
\* by no other.
C19_FlagReadAfterCommit ==
    (pc' \in {"default_remove"} \/ err' = "AssertionError") /\ run' = run
        => (pc = "set_default" /\ FormulaCommitted) \/ err = "AssertionError"

\* C19: the set-default flag is examined only after the formula commit; a
\* run with the flag set that has committed its formula ends with an error
\* and never returns the formula path.
C19_FlagEndsInFailure ==
    /\ [](C19_FlagOnlyAfterCommit)
    /\ [][C19_FlagReadAfterCommit]_vars
    /\ [](\A r \in 1..MaxRuns :
            (run = r /\ FlagSet /\ pc = "set_default")
                => <>(run = r /\ pc = "halted" /\ err /= "none"))

\* C19 witness: a run with the flag set committed its formula and then
\* ended with AssertionError, returning nothing
C19_Witness ==
    /\ FlagSet /\ FormulaCommitted
    /\ pc = "halted" /\ err = "AssertionError"
    /\ returned = None
    /\ homebrew_filename(Get(args).version.value) \in committed

-----------------------------------------------------------------------------
(* What the claims about Version say, stated without the parser *)

AllIn(s, i, j, cls) == \A k \in i..j : s[k] \in cls

\* s is <digits>.<digits>.<digits> with the first dot at d1, the second at
\* d2, the patch ending at p and, when q > p, a tag in p+1..q and a number
\* from q+1 to the end of s
IsShape(s, d1, d2, p, q) ==
    /\ 1 < d1 /\ d1 + 1 < d2 /\ d2 < p /\ p <= q /\ q <= Len(s)
    /\ s[d1] = "." /\ s[d2] = "."
    /\ AllIn(s, 1, d1 - 1, Digits)
    /\ AllIn(s, d1 + 1, d2 - 1, Digits)
    /\ AllIn(s, d2 + 1, p, Digits)
    /\ \/ q = p /\ p = Len(s)
       \/ q > p /\ q < Len(s) /\ AllIn(s, p + 1, q, Lower)
                /\ AllIn(s, q + 1, Len(s), Digits)

Shapes(s) ==
    LET dots == {i \in DOMAIN s : s[i] = "."}
    IN  {sh \in dots \X dots \X (DOMAIN s) \X (DOMAIN s) :
            IsShape(s, sh[1], sh[2], sh[3], sh[4])}

\* s matches major.minor.patch[(tag)(num)] as a whole
WellFormed(s) == Shapes(s) /= {}

\* the components of a well-formed s, as written
Written(s) ==
    LET sh == CHOOSE x \in Shapes(s) : TRUE
    IN  [major |-> SubSeq(s, 1, sh[1] - 1),
         minor |-> SubSeq(s, sh[1] + 1, sh[2] - 1),
         patch |-> SubSeq(s, sh[2] + 1, sh[3]),
         tag   |-> SubSeq(s, sh[3] + 1, sh[4]),
         num   |-> SubSeq(s, sh[4] + 1, Len(s))]

\* a numeral without its superfluous leading zeros
RECURSIVE Canonical(_)
Canonical(ds) ==
    IF Len(ds) > 1 /\ ds[1] = "0" THEN Canonical(Tail(ds)) ELSE ds

FilenameOf(major, minor, patch, tag, num) ==
    <<"d", "b", "t", "@">> \o major \o <<".">> \o minor \o <<".">> \o patch
        \o (IF tag = << >> THEN << >> ELSE <<"-">> \o tag \o num)
        \o <<".", "r", "b">>

Constructed == version /= None /\ ~IsException(Get(version))

\* C9: Version() accepts only strings that match
\* major.minor.patch[(tag)(num)] as a whole; every other string (a component
\* missing, a tag without a number, a number without a tag) is rejected.
C9_OnlyWholeMatchesAccepted ==
    version /= None => (Constructed <=> WellFormed(raw))

\* C10 as written: for a well-formed string, the filename form is
\* dbt@M.N.P.rb or dbt@M.N.P-<tag><num>.rb with M, N, P, tag and num exactly
\* as written in the input.
C10_FilenameAsWritten ==
    (projected.filename /= None /\ WellFormed(raw)) =>
        LET w == Written(raw)
        IN  Get(projected.filename)
                = FilenameOf(w.major, w.minor, w.patch, w.tag, w.num)

\* C10 amended: for a well-formed string, the filename form is dbt@M.N.P.rb
\* or dbt@M.N.P-<tag><num>.rb with the tag as written and M, N, P and num as
\* written less their superfluous leading zeros.
C10_FilenameCanonical ==
    (projected.filename /= None /\ WellFormed(raw)) =>
        LET w == Written(raw)
        IN  Get(projected.filename)
                = FilenameOf(Canonical(w.major), Canonical(w.minor),
                             Canonical(w.patch), w.tag, Canonical(w.num))

\* C10 witness: 0.10.0b1 has been parsed and projected to dbt@0.10.0-b1.rb
C10_Witness ==
    /\ raw = <<"0", ".", "1", "0", ".", "0", "b", "1">>
    /\ projected.filename
         = Some(<<"d", "b", "t", "@", "0", ".", "1", "0", ".", "0", "-", "b", "1",
                  ".", "r", "b">>)

\* the tag with its first letter in upper case
Capitalised(tag) ==
    [i \in DOMAIN tag |->
        IF i = 1 THEN UpperSeq[CHOOSE k \in DOMAIN LowerSeq : LowerSeq[k] = tag[1]]
        ELSE tag[i]]

ClassNameOf(major, minor, patch, tag, num) ==
    <<"D", "b", "t", "A", "T">> \o major \o minor \o patch
        \o (IF tag = << >> THEN << >> ELSE Capitalised(tag) \o num)

\* the class-name form of a well-formed string is DbtAT, then M, N and P
\* without separators, then, only with a prerelease, the title-cased tag
\* and the number
C11_ClassNameForm ==
    (projected.class_name /= None /\ WellFormed(raw)) =>
        LET w == Written(raw)
        IN  Get(projected.class_name)
                = ClassNameOf(Canonical(w.major), Canonical(w.minor),
                              Canonical(w.patch), w.tag, Canonical(w.num))

\* a step that projects to the class name changes neither the string, nor
\* the Version, nor the filename form
C11_ProjectionIsPure ==
    (projected'.class_name /= projected.class_name) =>
        /\ raw' = raw /\ version' = version
        /\ projected'.filename = projected.filename

\* C11: for every valid version string the class-name form is `DbtAT`
\* followed by M, N and P concatenated, followed only with a prerelease by
\* the title-cased tag and the number; the projection is a function of the
\* Version and leaves it unchanged.
C11_ClassName == [](C11_ClassNameForm) /\ [][C11_ProjectionIsPure]_vars

\* C11 witness: 0.10.0b1 has been parsed and projected to DbtAT0100B1
C11_Witness ==
    /\ raw = <<"0", ".", "1", "0", ".", "0", "b", "1">>
    /\ Constructed
    /\ projected.class_name
         = Some(<<"D", "b", "t", "A", "T", "0", "1", "0", "0", "B", "1">>)

\* major, minor, patch, tag and number of a well-formed string
Components(s) ==
    LET w == Written(s)
    IN  <<Canonical(w.major), Canonical(w.minor), Canonical(w.patch), w.tag,
          Canonical(w.num)>>

\* the digits of major, minor and patch, one after the other
Numerals(s) == Components(s)[1] \o Components(s)[2] \o Components(s)[3]

\* both Versions are constructed and projected, and they differ in major,
\* minor, patch, tag or number
TwoReleases ==
    /\ projected /= None /\ other_projected /= None
    /\ projected.filename /= None /\ other_projected.filename /= None
    /\ Components(raw) /= Components(other_raw)

\* C18 as written: two accepted versions that differ in major, minor, patch,
\* tag or number have different class-name forms and different filename
\* forms.
C18_FormsDistinct ==
    TwoReleases =>
        /\ projected.filename /= other_projected.filename
        /\ projected.class_name /= other_projected.class_name

\* C18 amended: two accepted versions that differ in major, minor, patch,
\* tag or number have different filename forms; their class-name forms are
\* the same exactly when the digits of major, minor and patch run together
\* to the same numeral and tag and number agree.
C18_FilenamesDistinct ==
    TwoReleases =>
        /\ projected.filename /= other_projected.filename
        /\ (projected.class_name = other_projected.class_name)
              <=> /\ Numerals(raw) = Numerals(other_raw)
                  /\ Components(raw)[4] = Components(other_raw)[4]
                  /\ Components(raw)[5] = Components(other_raw)[5]

\* C18 witness: 0.1.11 and 0.11.1 have the filenames dbt@0.1.11.rb and
\* dbt@0.11.1.rb and the one class name DbtAT0111
C18_Witness ==
    /\ raw = <<"0", ".", "1", ".", "1", "1">>
    /\ other_raw = <<"0", ".", "1", "1", ".", "1">>
    /\ projected /= None /\ other_projected /= None
    /\ projected.filename
         = Some(<<"d", "b", "t", "@", "0", ".", "1", ".", "1", "1", ".", "r", "b">>)
    /\ other_projected.filename
         = Some(<<"d", "b", "t", "@", "0", ".", "1", "1", ".", "1", ".", "r", "b">>)
    /\ projected.class_name = other_projected.class_name

-----------------------------------------------------------------------------
(* The version argument on the command line of a run *)

\* a run of the script whose interpreter is not the expected one, or whose
\* version argument does not have the form major.minor.patch[(tag)(num)]
Refused ==
    /\ entry = "main"
    /\ \/ env.python /= HOMEBREW_PYTHON
       \/ ~WellFormed(Get(argv).version)

\* C13 (state part): a run of the script invokes a stage only after the
\* runtime check passed and the parser accepted the version argument; a run
\* with the wrong runtime or a malformed version is never past set_version.
C13_NoStageUnchecked ==
    /\ (entry = "main" /\ (calls /= << >> \/ pc \notin {"sanity_check", "parse", "halted"}))
          => /\ env.python = HOMEBREW_PYTHON /\ env.wheel
             /\ ~IsException(VersionInit(Get(argv).version))
             /\ args /= None
    /\ Refused =>
          /\ pc \in {"sanity_check", "parse", "set_version", "halted"}
          /\ \A i \in DOMAIN calls : calls[i].outcome = "TypeError"
    /\ (entry = "main" /\ env.python /= HOMEBREW_PYTHON) => calls = << >>

\* C13 (step part): no step of such a run changes a file, an index or a
\* repository.
C13_RefusedRunChangesNothing ==
    (Refused /\ run' = run) =>
        /\ tree_version' = tree_version /\ dist' = dist
        /\ test_index' = test_index /\ prod_index' = prod_index
        /\ venv' = venv /\ formulas' = formulas
        /\ staged' = staged /\ committed' = committed

-----------------------------------------------------------------------------
(* What the claims about extraction say, stated without the scanner *)

\* l without its leading and trailing blanks
Trimmed(l) ==
    LET first == {i \in DOMAIN l : l[i] \notin Whitespace}
    IN  IF first = {} THEN << >>
        ELSE SubSeq(l, CHOOSE i \in first : \A j \in first : i <= j,
                       CHOOSE i \in first : \A j \in first : i >= j)

Min(S) == CHOOSE x \in S : \A y \in S : x <= y

OpeningLines == {i \in DOMAIN poet_lines : Trimmed(poet_lines[i]) = <<"R">>}
ClosingLines ==
    {j \in DOMAIN poet_lines :
        j > Min(OpeningLines) /\ Trimmed(poet_lines[j]) = <<"E">>}

\* the output holds a `resource "dbt" do` ... `end` block
HasBlock == OpeningLines /= {} /\ ClosingLines /= {}

\* the lines between the first opening marker and the `end` that closes it
Inner == SubSeq(poet_lines, Min(OpeningLines) + 1, Min(ClosingLines) - 1)

Extracted == parts /= None /\ ~IsException(Get(parts))

\* C7: extraction fails for every output without a block and for every
\* output whose block holds zero or one lines, and never returns data whose
\* url line or hash line is missing.
C7_FailsWithoutTwoLineBlock ==
    parts /= None =>
        /\ (~HasBlock \/ Len(Inner) <= 1) => IsException(Get(parts))
        /\ Extracted => (Get(parts).url_data /= << >>
                         /\ Get(parts).hash_data /= << >>)

\* C8 as written: for every output that holds a block, extraction yields the
\* trimmed url line and the trimmed hash line of that block, in that order.
C8_EveryBlockYieldsTwoLines ==
    (parts /= None /\ HasBlock) =>
        /\ Extracted
        /\ Len(Inner) >= 2
        /\ Get(parts).url_data = Trimmed(Inner[1])
        /\ Get(parts).hash_data = Trimmed(Inner[2])

\* C8 amended: for every output whose block holds exactly two lines between
\* the opening marker and `end`, extraction yields exactly those two lines,
\* trimmed, in their order (the url line, then the hash line), whatever lies
\* outside the block; a block with any other number of lines yields nothing.
C8_TwoLineBlockYieldsItsLines ==
    (parts /= None /\ HasBlock) =>
        IF Len(Inner) = 2
        THEN Get(parts) = [url_data |-> Trimmed(Inner[1]),
                           hash_data |-> Trimmed(Inner[2])]
        ELSE IsException(Get(parts))

\* C8 witness: a line before the block, padded markers, a padded hash line
C8_Witness ==
    /\ poet_lines = << <<"u">>, <<" ", "R", " ">>, <<"u">>, <<" ", "h">>, <<"E", " ">> >>
    /\ parts = Some([url_data |-> <<"u">>, hash_data |-> <<"h">>])

\* where the scan of the output ends: Searching while no opening marker was
\* seen, Collecting after it, Done once an `end` line followed it
ScanEnd ==
    IF OpeningLines = {} THEN "Searching"
    ELSE IF ClosingLines = {} THEN "Collecting"
    ELSE "Done"

\* C17: extraction fails on every scan that does not reach Done: an output
\* in which the opening marker is never found, or is found with no closing
\* `end` line after it, never yields formula data.
C17_FailsUnlessDone ==
    (parts /= None /\ ScanEnd /= "Done") => IsException(Get(parts))

=============================================================================
